---- MODULE Spec2Model ----
(***************************************************************************)
(* Model of the counter-pick agent: app.py (get_user_input, create_prompt, *)
(* main) and helpers.py (structured_generator,                             *)
(* structured_generator_with_system_prompt).                               *)
(*                                                                         *)
(* A Python str is a sequence of one-character strings, so that strip,     *)
(* capitalize, upper, startswith and the f-string of create_prompt are     *)
(* computed character by character.  A value that may be None is a record  *)
(* tagged by "kind".                                                       *)
(***************************************************************************)
EXTENDS Integers, Sequences, FiniteSets, TLC

\* ------------------------------------------------------------------------
\* Bounds of the model
\* ------------------------------------------------------------------------

\* The largest number of champion names a service response carries.
MaxNames == 6

\* ------------------------------------------------------------------------
\* Python values and str methods
\* ------------------------------------------------------------------------

PyNone == [kind |-> "None"]

PyStr(s) == [kind |-> "str", s |-> s]

\* Truth value of an Optional[str]: None and "" are falsy.
Falsy(v) == v.kind = "None" \/ (v.kind = "str" /\ v.s = << >>)

LowerLetters ==
    <<"a", "b", "c", "d", "e", "f", "g", "h", "i", "j", "k", "l", "m",
      "n", "o", "p", "q", "r", "s", "t", "u", "v", "w", "x", "y", "z">>

UpperLetters ==
    <<"A", "B", "C", "D", "E", "F", "G", "H", "I", "J", "K", "L", "M",
      "N", "O", "P", "Q", "R", "S", "T", "U", "V", "W", "X", "Y", "Z">>

Whitespace == {" ", "\t", "\n", "\r"}

IndexIn(c, letters) ==
    IF \E i \in 1..Len(letters) : letters[i] = c
    THEN CHOOSE i \in 1..Len(letters) : letters[i] = c
    ELSE 0

UpperChar(c) ==
    IF IndexIn(c, LowerLetters) > 0 THEN UpperLetters[IndexIn(c, LowerLetters)] ELSE c

LowerChar(c) ==
    IF IndexIn(c, UpperLetters) > 0 THEN LowerLetters[IndexIn(c, UpperLetters)] ELSE c

RECURSIVE lstrip(_)
lstrip(s) ==
    IF s /= << >> /\ Head(s) \in Whitespace THEN lstrip(Tail(s)) ELSE s

RECURSIVE rstrip(_)
rstrip(s) ==
    IF s /= << >> /\ s[Len(s)] \in Whitespace
    THEN rstrip(SubSeq(s, 1, Len(s) - 1))
    ELSE s

\* str.strip()
strip(s) == rstrip(lstrip(s))

\* str.capitalize(): first character upper-cased, the rest lower-cased.
capitalize(s) ==
    [i \in 1..Len(s) |-> IF i = 1 THEN UpperChar(s[i]) ELSE LowerChar(s[i])]

\* str.upper()
upper(s) == [i \in 1..Len(s) |-> UpperChar(s[i])]

\* str.startswith(prefix)
startswith(s, prefix) ==
    Len(s) >= Len(prefix) /\ SubSeq(s, 1, Len(prefix)) = prefix

\* Python's  a or b  on str values.
StrOr(a, b) == IF a = << >> THEN b ELSE a

\* ------------------------------------------------------------------------
\* app.py: the response schema
\* ------------------------------------------------------------------------

\* class ChampionRecommendations(BaseModel): three required fields, the list
\* champions bounded by min_items and max_items.
ChampionRecommendations ==
    [name      |-> "ChampionRecommendations",
     required  |-> {"champions", "reasoning", "key_threats"},
     min_items |-> [champions |-> 3],
     max_items |-> [champions |-> 5]]

\* ------------------------------------------------------------------------
\* app.py: get_user_input
\* ------------------------------------------------------------------------

Unknown ==
    <<"U", "n", "k", "n", "o", "w", "n">>

\* input(...).strip() or "Unknown"
EnemyField(line) == StrOr(strip(line), Unknown)

\* input(...).strip().capitalize()
RoleField(line) == capitalize(strip(line))

\* The dictionary get_user_input returns for the six typed lines.
get_user_input(lines) ==
    [top       |-> EnemyField(lines[1]),
     jungle    |-> EnemyField(lines[2]),
     mid       |-> EnemyField(lines[3]),
     adc       |-> EnemyField(lines[4]),
     support   |-> EnemyField(lines[5]),
     your_role |-> RoleField(lines[6])]

\* ------------------------------------------------------------------------
\* app.py: create_prompt
\* ------------------------------------------------------------------------

\* The literal pieces of the f-string, in order, between its seven fields.
T0 ==
    <<"Y", "o", "u", " ", "a", "r", "e", " ", "a", "n", " ", "e", "x", "p", "e", "r",
      "t", " ", "L", "e", "a", "g", "u", "e", " ", "o", "f", " ", "L", "e", "g", "e",
      "n", "d", "s", " ", "a", "n", "a", "l", "y", "s", "t", " ", "s", "p", "e", "c",
      "i", "a", "l", "i", "z", "i", "n", "g", " ", "i", "n", " ", "c", "h", "a", "m",
      "p", "i", "o", "n", " ", "s", "e", "l", "e", "c", "t", " ", "s", "t", "r", "a",
      "t", "e", "g", "y", ".", "\n", "\n", "E", "N", "E", "M", "Y", " ", "T", "E", "A",
      "M", " ", "C", "O", "M", "P", "O", "S", "I", "T", "I", "O", "N", ":", "\n", "-",
      " ", "T", "o", "p", ":", " ">>

T1 ==
    <<"\n", "-", " ", "J", "u", "n", "g", "l", "e", ":", " ">>

T2 ==
    <<"\n", "-", " ", "M", "i", "d", ":", " ">>

T3 ==
    <<"\n", "-", " ", "A", "D", "C", ":", " ">>

T4 ==
    <<"\n", "-", " ", "S", "u", "p", "p", "o", "r", "t", ":", " ">>

T5 ==
    <<"\n", "\n", "Y", "O", "U", "R", " ", "R", "O", "L", "E", ":", " ">>

T6 ==
    <<"\n", "\n", "T", "A", "S", "K", ":", "\n", "R", "e", "c", "o", "m", "m", "e", "n",
      "d", " ", "3", "-", "5", " ", "c", "h", "a", "m", "p", "i", "o", "n", "s", " ",
      "f", "o", "r", " ", "t", "h", "e", " ">>

T7 ==
    <<" ", "r", "o", "l", "e", " ", "t", "h", "a", "t", " ", "c", "o", "u", "n", "t",
      "e", "r", " ", "t", "h", "i", "s", " ", "e", "n", "e", "m", "y", " ", "t", "e",
      "a", "m", " ", "c", "o", "m", "p", "o", "s", "i", "t", "i", "o", "n", ".", "\n",
      "\n", "A", "N", "A", "L", "Y", "S", "I", "S", " ", "C", "R", "I", "T", "E", "R",
      "I", "A", ":", "\n", "1", ".", " ", "*", "*", "L", "a", "n", "e", " ", "M", "a",
      "t", "c", "h", "u", "p", "*", "*", ":", " ", "H", "o", "w", " ", "w", "e", "l",
      "l", " ", "d", "o", "e", "s", " ", "t", "h", "e", " ", "c", "h", "a", "m", "p",
      "i", "o", "n", " ", "p", "e", "r", "f", "o", "r", "m", " ", "i", "n", " ", "d",
      "i", "r", "e", "c", "t", " ", "l", "a", "n", "e", " ", "m", "a", "t", "c", "h",
      "u", "p", "s", "?", "\n", "2", ".", " ", "*", "*", "D", "a", "m", "a", "g", "e",
      " ", "T", "y", "p", "e", "*", "*", ":", " ", "C", "o", "n", "s", "i", "d", "e",
      "r", " ", "A", "P", "/", "A", "D", " ", "b", "a", "l", "a", "n", "c", "e", " ",
      "(", "a", "v", "o", "i", "d", " ", "s", "a", "m", "e", " ", "d", "a", "m", "a",
      "g", "e", " ", "t", "y", "p", "e", " ", "a", "s", " ", "t", "e", "a", "m", ")",
      "\n", "3", ".", " ", "*", "*", "T", "e", "a", "m", " ", "C", "o", "m", "p", "o",
      "s", "i", "t", "i", "o", "n", "*", "*", ":", " ", "D", "o", "e", "s", " ", "t",
      "h", "e", " ", "e", "n", "e", "m", "y", " ", "h", "a", "v", "e", " ", "t", "a",
      "n", "k", "s", ",", " ", "a", "s", "s", "a", "s", "s", "i", "n", "s", ",", " ",
      "p", "o", "k", "e", ",", " ", "e", "n", "g", "a", "g", "e", ",", " ", "d", "i",
      "s", "e", "n", "g", "a", "g", "e", "?", "\n", "4", ".", " ", "*", "*", "W", "i",
      "n", " ", "C", "o", "n", "d", "i", "t", "i", "o", "n", "s", "*", "*", ":", " ",
      "I", "d", "e", "n", "t", "i", "f", "y", " ", "w", "h", "a", "t", " ", "t", "h",
      "e", " ", "e", "n", "e", "m", "y", " ", "w", "a", "n", "t", "s", " ", "t", "o",
      " ", "d", "o", " ", "a", "n", "d", " ", "h", "o", "w", " ", "t", "o", " ", "s",
      "t", "o", "p", " ", "i", "t", "\n", "5", ".", " ", "*", "*", "S", "c", "a", "l",
      "i", "n", "g", "*", "*", ":", " ", "C", "o", "n", "s", "i", "d", "e", "r", " ",
      "e", "a", "r", "l", "y", "/", "m", "i", "d", "/", "l", "a", "t", "e", " ", "g",
      "a", "m", "e", " ", "p", "o", "w", "e", "r", " ", "s", "p", "i", "k", "e", "s",
      "\n", "6", ".", " ", "*", "*", "C", "r", "o", "w", "d", " ", "C", "o", "n", "t",
      "r", "o", "l", "*", "*", ":", " ", "D", "o", "e", "s", " ", "y", "o", "u", "r",
      " ", "t", "e", "a", "m", " ", "n", "e", "e", "d", " ", "m", "o", "r", "e", " ",
      "C", "C", " ", "o", "r", " ", "d", "o", " ", "y", "o", "u", " ", "n", "e", "e",
      "d", " ", "t", "o", " ", "a", "v", "o", "i", "d", " ", "C", "C", "?", "\n", "7",
      ".", " ", "*", "*", "M", "o", "b", "i", "l", "i", "t", "y", "*", "*", ":", " ",
      "C", "a", "n", " ", "y", "o", "u", " ", "m", "a", "t", "c", "h", " ", "e", "n",
      "e", "m", "y", " ", "m", "o", "b", "i", "l", "i", "t", "y", " ", "o", "r", " ",
      "d", "o", " ", "y", "o", "u", " ", "n", "e", "e", "d", " ", "t", "o", " ", "p",
      "u", "n", "i", "s", "h", " ", "i", "m", "m", "o", "b", "i", "l", "e", " ", "e",
      "n", "e", "m", "i", "e", "s", "?", "\n", "\n", "P", "r", "o", "v", "i", "d", "e",
      " ", "c", "h", "a", "m", "p", "i", "o", "n", "s", " ", "t", "h", "a", "t", " ",
      "s", "y", "n", "e", "r", "g", "i", "z", "e", " ", "w", "e", "l", "l", " ", "a",
      "g", "a", "i", "n", "s", "t", " ", "T", "H", "I", "S", " ", "s", "p", "e", "c",
      "i", "f", "i", "c", " ", "e", "n", "e", "m", "y", " ", "c", "o", "m", "p", "o",
      "s", "i", "t", "i", "o", "n", ",", " ", "n", "o", "t", " ", "j", "u", "s", "t",
      " ", "g", "e", "n", "e", "r", "a", "l", " ", "s", "t", "r", "o", "n", "g", " ",
      "p", "i", "c", "k", "s", ".">>


\* create_prompt with the TASK sentence not naming the role.
create_prompt_RoleOnce(enemy_team, your_role) ==
    T0 \o enemy_team.top \o T1 \o enemy_team.jungle \o T2 \o enemy_team.mid
       \o T3 \o enemy_team.adc \o T4 \o enemy_team.support
       \o T5 \o your_role \o T6 \o T7

\* The f-string of create_prompt: five enemy fields, then your_role twice.
create_prompt(enemy_team, your_role) ==
    T0 \o enemy_team.top \o T1 \o enemy_team.jungle \o T2 \o enemy_team.mid
       \o T3 \o enemy_team.adc \o T4 \o enemy_team.support
       \o T5 \o your_role \o T6 \o your_role \o T7

\* main's argument to create_prompt: the five enemy entries of user_data.
EnemyTeamOf(data) ==
    [top |-> data.top, jungle |-> data.jungle, mid |-> data.mid,
     adc |-> data.adc, support |-> data.support]

\* ------------------------------------------------------------------------
\* helpers.py: request parameters
\* ------------------------------------------------------------------------

\* The system instruction structured_generator hardcodes.
FixedSystemPrompt ==
    <<"Y", "o", "u", " ", "a", "r", "e", " ", "a", " ", "h", "e", "l", "p", "f", "u",
      "l", " ", "A", "I", " ", "a", "s", "s", "i", "s", "t", "a", "n", "t", " ", "t",
      "h", "a", "t", " ", "p", "r", "o", "v", "i", "d", "e", "s", " ", "s", "t", "r",
      "u", "c", "t", "u", "r", "e", "d", ",", " ", "a", "c", "c", "u", "r", "a", "t",
      "e", " ", "r", "e", "s", "p", "o", "n", "s", "e", "s", ".">>

\* The model-name prefix whose models take no temperature.
NoTemperaturePrefix ==
    <<"g", "p", "t", "-", "5">>

\* The temperature sent otherwise (0.7).
DefaultTemperature == "0.7"


\* WithTemperature with the test  model != "gpt-5"  in place of startswith.
WithTemperature_ExactMatch(model, params) ==
    IF model /= NoTemperaturePrefix
    THEN params @@ [temperature |-> DefaultTemperature]
    ELSE params

\* if not model.startswith("gpt-5"): params["temperature"] = 0.7
WithTemperature(model, params) ==
    IF ~startswith(model, NoTemperaturePrefix)
    THEN params @@ [temperature |-> DefaultTemperature]
    ELSE params

\* params of structured_generator
Params_structured_generator(model, prompt, response_model) ==
    WithTemperature(model,
        [model           |-> model,
         messages        |-> <<[role |-> "system", content |-> FixedSystemPrompt],
                               [role |-> "user", content |-> prompt]>>,
         response_format |-> response_model])


\* Params_with_system_prompt with the user message before the system message.
Params_with_system_prompt_UserFirst(model, system_prompt, user_prompt, response_model) ==
    WithTemperature(model,
        [model           |-> model,
         messages        |-> <<[role |-> "user", content |-> user_prompt],
                               [role |-> "system", content |-> system_prompt]>>,
         response_format |-> response_model])

\* params of structured_generator_with_system_prompt
Params_with_system_prompt(model, system_prompt, user_prompt, response_model) ==
    WithTemperature(model,
        [model           |-> model,
         messages        |-> <<[role |-> "system", content |-> system_prompt],
                               [role |-> "user", content |-> user_prompt]>>,
         response_format |-> response_model])


\* MissingKey with the test  api_key is None  in place of  not api_key.
MissingKey_NoneOnly(api_key) == api_key.kind = "None"

\* if not api_key: the credential is missing when unset or empty.
MissingKey(api_key) == Falsy(api_key)

\* The ValueError each helper raises for a missing credential.
KeyError_structured_generator ==
    [type |-> "ValueError",
     msg  |-> "OpenAI API key not found! Please set your OPENAI_API_KEY in the .env file. ..."]

KeyError_with_system_prompt ==
    [type |-> "ValueError", msg |-> "OPENAI_API_KEY not found in .env file!"]

\* ------------------------------------------------------------------------
\* helpers.py: client.beta.chat.completions.parse(**params)
\* ------------------------------------------------------------------------

\* What the completion service may answer to one request: a JSON content
\* with n champion names, a content lacking a required field, a refusal (no
\* content to parse), or a transport / authentication failure.
ChampionPool ==
    <<"Malphite", "Rammus", "Poppy", "Shen", "Ornn", "Garen", "Sion", "Maokai">>

Names(n) == [i \in 1..n |-> ChampionPool[i]]

Content(n) ==
    [champions   |-> Names(n),
     reasoning   |-> "They out-scale and lock down the enemy carries.",
     key_threats |-> <<"Enemy engage", "Enemy poke">>]

TransportErrors ==
    {[type |-> "APIConnectionError", msg |-> "Connection error."],
     [type |-> "AuthenticationError", msg |-> "Incorrect API key provided."]}

ServiceResponses ==
    {[kind |-> "content", content |-> Content(n)] : n \in 0..MaxNames}
    \cup {[kind |-> "content",
           content |-> [champions |-> Names(3), reasoning |-> "No threats."]]}
    \cup {[kind |-> "refusal"]}
    \cup {[kind |-> "error", error |-> e] : e \in TransportErrors}

ValidationError ==
    [type |-> "ValidationError", msg |-> "validation error for ChampionRecommendations"]


\* Validates with max_items taken as an exclusive bound.
Validates_ExclusiveMax(response_model, content) ==
    /\ response_model.required \subseteq DOMAIN content
    /\ \A fld \in DOMAIN response_model.min_items :
          Len(content[fld]) >= response_model.min_items[fld]
    /\ \A fld \in DOMAIN response_model.max_items :
          Len(content[fld]) < response_model.max_items[fld]

\* Pydantic validation of a content against the response model: every required
\* field present, every bounded list within min_items..max_items.
Validates(response_model, content) ==
    /\ response_model.required \subseteq DOMAIN content
    /\ \A fld \in DOMAIN response_model.min_items :
          Len(content[fld]) >= response_model.min_items[fld]
    /\ \A fld \in DOMAIN response_model.max_items :
          Len(content[fld]) <= response_model.max_items[fld]

\* The validated instance of the response model.
Instance(response_model, content) == [kind |-> response_model.name] @@ content

\* Outcome of completions.parse for a service response: the error raised, or
\* a completion whose choices[0].message.parsed is the instance, or None for
\* a refusal.
ParseCompletion(response, response_format) ==
    CASE response.kind = "error" ->
            [kind |-> "raise", error |-> response.error]
      [] response.kind = "refusal" ->
            [kind |-> "completion", parsed |-> PyNone]
      [] response.kind = "content" ->
            IF Validates(response_format, response.content)
            THEN [kind |-> "completion",
                  parsed |-> Instance(response_format, response.content)]
            ELSE [kind |-> "raise", error |-> ValidationError]

\* return completion.choices[0].message.parsed
ReturnValue(completion) == completion.parsed

\* ------------------------------------------------------------------------
\* app.py: main's exception handling
\* ------------------------------------------------------------------------

\* Every error of the model is a subclass of Exception.
ExceptionTypes ==
    {"ValueError", "APIConnectionError", "AuthenticationError",
     "ValidationError", "AttributeError"}


\* Catches with  except ValueError  in place of  except Exception.
Catches_ValueErrorOnly(e) == e.type = "ValueError"

\* except Exception as e
Catches(e) == e.type \in ExceptionTypes

\* result.champions on None
AttributeError ==
    [type |-> "AttributeError", msg |-> "'NoneType' object has no attribute 'champions'"]

\* ------------------------------------------------------------------------
\* State
\* ------------------------------------------------------------------------

VARIABLES
    environ,    \* the process environment: a function from variable names to str
    mode,       \* "main": app.py is run; "import": helpers.py is called directly
    stdin,      \* the lines the user has typed
    stdout,     \* the lines printed so far
    mainpc,     \* main's position
    user_data,  \* main's local
    prompt,     \* main's local
    result,     \* main's local
    caught,     \* the exception main's handler is bound to
    sg,         \* the call frame of structured_generator
    sp,         \* the call frame of structured_generator_with_system_prompt
    clients,    \* the OpenAI clients constructed, in order
    network     \* the completions.parse invocations made, in order

vars ==
    <<environ, mode, stdin, stdout, mainpc, user_data, prompt, result, caught,
      sg, sp, clients, network>>

\* os.getenv(name)
getenv(name) == IF name \in DOMAIN environ THEN PyStr(environ[name]) ELSE PyNone

TestKey ==
    <<"s", "k", "-", "t", "e", "s", "t">>

\* The environments: the credential unset, set to "", or set to a key.
Environs ==
    {[n \in {} |-> << >>],
     [OPENAI_API_KEY |-> << >>],
     [OPENAI_API_KEY |-> TestKey]}

IdleFrame ==
    [pc |-> "idle", args |-> PyNone, api_key |-> PyNone, params |-> PyNone,
     response |-> PyNone, completion |-> PyNone, error |-> PyNone, retval |-> PyNone]

Line(by, kind, text) == [by |-> by, kind |-> kind, text |-> text]

ErrorLine(by, e) == [by |-> by, kind |-> "error", error |-> e]

Init ==
    /\ environ \in Environs
    /\ mode \in {"main", "import"}
    /\ stdin = << >>
    /\ stdout = << >>
    /\ mainpc = "start"
    /\ user_data = PyNone
    /\ prompt = PyNone
    /\ result = PyNone
    /\ caught = PyNone
    /\ sg = IdleFrame
    /\ sp = IdleFrame
    /\ clients = << >>
    /\ network = << >>

\* ------------------------------------------------------------------------
\* app.py: main
\* ------------------------------------------------------------------------

\* What the user may type for a skipped line.
BlankForms ==
    {<< >>,
     <<" ", " ">>}

\* What the user types for an enemy role that is not skipped, by role.
TypedNames ==
    <<<<" ", "G", "a", "r", "e", "n">>,
      <<"L", "e", "e", " ", "S", "i", "n", " ">>,
      <<"a", "h", "r", "i">>,
      <<"J", "i", "n", "x">>,
      <<"T", "h", "r", "e", "s", "h">>>>

\* What the user may type for the own role.
RoleLines ==
    {<< >>,
     <<" ">>,
     <<"m", "i", "d">>,
     <<" ", "a", "D", "C", " ">>}

\* Lines 42-45, and the prompts of the six input() calls with "Your role:".
BannerLines ==
    <<Line("main", "rule", "============================================================"),
      Line("main", "banner", "    LEAGUE OF LEGENDS COUNTER-PICK AI AGENT"),
      Line("main", "rule", "============================================================"),
      Line("main", "banner", "Enter enemy team champions (or press Enter to skip):"),
      Line("main", "input", "Enemy Top: "),
      Line("main", "input", "Enemy Jungle: "),
      Line("main", "input", "Enemy Mid: "),
      Line("main", "input", "Enemy ADC: "),
      Line("main", "input", "Enemy Support: "),
      Line("main", "banner", "Your role:"),
      Line("main", "input", "Role (Top/Jungle/Mid/ADC/Support): ")>>

\* Step 1: user_data = get_user_input()
GetUserInput ==
    /\ mode = "main"
    /\ mainpc = "start"
    /\ \E blanks \in SUBSET (1..Len(TypedNames)), form \in BlankForms, role \in RoleLines :
          LET lines == [i \in 1..(Len(TypedNames) + 1) |->
                          IF i > Len(TypedNames) THEN role
                          ELSE IF i \in blanks THEN form
                          ELSE TypedNames[i]]
          IN /\ stdin' = lines
             /\ user_data' = get_user_input(lines)
    /\ stdout' = stdout \o BannerLines
    /\ mainpc' = "create_prompt"
    /\ UNCHANGED <<environ, mode, prompt, result, caught, sg, sp, clients, network>>

\* Step 2: prompt = create_prompt(enemy_team={...}, your_role=user_data["your_role"])
CreatePrompt ==
    /\ mainpc = "create_prompt"
    /\ prompt' = create_prompt(EnemyTeamOf(user_data), user_data.your_role)
    /\ mainpc' = "call"
    /\ UNCHANGED <<environ, mode, stdin, stdout, user_data, result, caught, sg, sp,
                   clients, network>>

\* Step 3: openai_model = "gpt-5"
openai_model ==
    <<"g", "p", "t", "-", "5">>

\* Step 4: the announcement, and the call of structured_generator inside try.
MainCall ==
    /\ mainpc = "call"
    /\ stdout' = Append(stdout, Line("main", "banner", "Analyzing enemy team composition..."))
    /\ sg' = [IdleFrame EXCEPT
                !.pc = "entry",
                !.args = [model |-> openai_model, prompt |-> prompt,
                          response_model |-> ChampionRecommendations]]
    /\ mainpc' = "in_call"
    /\ UNCHANGED <<environ, mode, stdin, user_data, prompt, result, caught, sp,
                   clients, network>>

\* result = structured_generator(...) returned.
MainResume ==
    /\ mainpc = "in_call"
    /\ sg.pc = "returned"
    /\ result' = sg.retval
    /\ mainpc' = "header"
    /\ UNCHANGED <<environ, mode, stdin, stdout, user_data, prompt, caught, sg, sp,
                   clients, network>>

\* structured_generator raised: the except clause of main.
MainCatch ==
    /\ mainpc = "in_call"
    /\ sg.pc = "raised"
    /\ caught' = sg.error
    /\ mainpc' = IF Catches(sg.error) THEN "except" ELSE "crashed"
    /\ UNCHANGED <<environ, mode, stdin, stdout, user_data, prompt, result, sg, sp,
                   clients, network>>

\* Step 5, lines 146-148: the header of the report.
MainHeader ==
    /\ mainpc = "header"
    /\ stdout' = stdout \o
          <<Line("main", "rule", "============================================================"),
            [by |-> "main", kind |-> "header", text |-> "  RECOMMENDED CHAMPIONS FOR ",
             role |-> upper(user_data.your_role)],
            Line("main", "rule", "============================================================")>>
    /\ mainpc' = "report"
    /\ UNCHANGED <<environ, mode, stdin, user_data, prompt, result, caught, sg, sp,
                   clients, network>>

\* Lines 150-163: the champions, the key threats and the reasoning.
ReportLines(r) ==
    [i \in 1..Len(r.champions) |->
        [by |-> "main", kind |-> "champion", i |-> i, text |-> r.champions[i]]]
    \o <<Line("main", "rule", "============================================================"),
         Line("main", "title", "  KEY THREATS TO WATCH"),
         Line("main", "rule", "============================================================")>>
    \o [i \in 1..Len(r.key_threats) |-> Line("main", "threat", r.key_threats[i])]
    \o <<Line("main", "rule", "============================================================"),
         Line("main", "title", "  REASONING"),
         Line("main", "rule", "============================================================"),
         Line("main", "reasoning", r.reasoning),
         Line("main", "rule", "============================================================")>>

\* result.champions raises AttributeError when result is None.
MainReport ==
    /\ mainpc = "report"
    /\ IF result.kind = "None"
       THEN /\ caught' = AttributeError
            /\ mainpc' = IF Catches(AttributeError) THEN "except" ELSE "crashed"
            /\ stdout' = stdout
       ELSE /\ stdout' = stdout \o ReportLines(result)
            /\ mainpc' = "done"
            /\ caught' = caught
    /\ UNCHANGED <<environ, mode, stdin, user_data, prompt, result, sg, sp,
                   clients, network>>

\* Lines 166-170: the error and the hints.
MainHints ==
    <<Line("main", "hint", "Make sure:"),
      Line("main", "hint", "1. Your .env file exists with OPENAI_API_KEY set"),
      Line("main", "hint", "2. You have installed required packages: pip install openai pydantic python-dotenv"),
      Line("main", "hint", "3. You have API credits available in your OpenAI account")>>

MainExcept ==
    /\ mainpc = "except"
    /\ stdout' = stdout \o <<ErrorLine("main", caught)>> \o MainHints
    /\ mainpc' = "done"
    /\ UNCHANGED <<environ, mode, stdin, user_data, prompt, result, caught, sg, sp,
                   clients, network>>

\* ------------------------------------------------------------------------
\* helpers.py: structured_generator
\* ------------------------------------------------------------------------

Finished(frame) == frame.pc \in {"returned", "raised"}

\* api_key = os.getenv("OPENAI_API_KEY"); if not api_key: raise ValueError(...)
SG_GetKey ==
    /\ sg.pc = "entry"
    /\ LET k == getenv("OPENAI_API_KEY")
       IN sg' = IF MissingKey(k)
                THEN [sg EXCEPT !.api_key = k, !.pc = "raised",
                                !.error = KeyError_structured_generator]
                ELSE [sg EXCEPT !.api_key = k, !.pc = "client"]
    /\ UNCHANGED <<environ, mode, stdin, stdout, mainpc, user_data, prompt, result,
                   caught, sp, clients, network>>

\* client = OpenAI(api_key=api_key)
SG_Client ==
    /\ sg.pc = "client"
    /\ clients' = Append(clients, [by |-> "structured_generator", api_key |-> sg.api_key.s])
    /\ sg' = [sg EXCEPT !.pc = "build"]
    /\ UNCHANGED <<environ, mode, stdin, stdout, mainpc, user_data, prompt, result,
                   caught, sp, network>>

\* params = {...}, with the temperature unless the model is a gpt-5 one.
SG_Build ==
    /\ sg.pc = "build"
    /\ sg' = [sg EXCEPT
                !.params = Params_structured_generator(
                               sg.args.model, sg.args.prompt, sg.args.response_model),
                !.pc = "parse"]
    /\ UNCHANGED <<environ, mode, stdin, stdout, mainpc, user_data, prompt, result,
                   caught, sp, clients, network>>

\* completion = client.beta.chat.completions.parse(**params)
SG_Parse ==
    /\ sg.pc = "parse"
    /\ network' = Append(network, [by |-> "structured_generator", params |-> sg.params])
    /\ \E response \in ServiceResponses :
          LET out == ParseCompletion(response, sg.params.response_format)
          IN sg' = IF out.kind = "raise"
                   THEN [sg EXCEPT !.response = response, !.error = out.error,
                                   !.pc = "except"]
                   ELSE [sg EXCEPT !.response = response, !.completion = out,
                                   !.pc = "return"]
    /\ UNCHANGED <<environ, mode, stdin, stdout, mainpc, user_data, prompt, result,
                   caught, sp, clients>>

\* return completion.choices[0].message.parsed
SG_Return ==
    /\ sg.pc = "return"
    /\ sg' = [sg EXCEPT !.retval = ReturnValue(sg.completion), !.pc = "returned"]
    /\ UNCHANGED <<environ, mode, stdin, stdout, mainpc, user_data, prompt, result,
                   caught, sp, clients, network>>


\* SG_Except with the request tried again in place of  raise.
SG_Except_Retry ==
    /\ sg.pc = "except"
    /\ stdout' = Append(stdout, ErrorLine("structured_generator", sg.error))
    /\ sg' = [sg EXCEPT !.pc = "parse"]
    /\ UNCHANGED <<environ, mode, stdin, mainpc, user_data, prompt, result, caught,
                   sp, clients, network>>

\* except Exception as e: the error, the troubleshooting tips, raise
SG_Except ==
    /\ sg.pc = "except"
    /\ stdout' = stdout \o
          <<ErrorLine("structured_generator", sg.error),
            Line("structured_generator", "hint", "Troubleshooting tips:"),
            Line("structured_generator", "hint", "1. Check that your API key is valid in the .env file"),
            Line("structured_generator", "hint", "2. Verify you have API credits available"),
            Line("structured_generator", "hint", "3. Ensure the model name is correct"),
            [by |-> "structured_generator", kind |-> "hint", text |-> "4. Model requested: ",
             model |-> sg.args.model]>>
    /\ sg' = [sg EXCEPT !.pc = "raised"]
    /\ UNCHANGED <<environ, mode, stdin, mainpc, user_data, prompt, result, caught,
                   sp, clients, network>>

\* ------------------------------------------------------------------------
\* helpers.py: structured_generator_with_system_prompt
\* ------------------------------------------------------------------------

\* api_key = os.getenv("OPENAI_API_KEY"); if not api_key: raise ValueError(...)
SP_GetKey ==
    /\ sp.pc = "entry"
    /\ LET k == getenv("OPENAI_API_KEY")
       IN sp' = IF MissingKey(k)
                THEN [sp EXCEPT !.api_key = k, !.pc = "raised",
                                !.error = KeyError_with_system_prompt]
                ELSE [sp EXCEPT !.api_key = k, !.pc = "client"]
    /\ UNCHANGED <<environ, mode, stdin, stdout, mainpc, user_data, prompt, result,
                   caught, sg, clients, network>>

\* client = OpenAI(api_key=api_key)
SP_Client ==
    /\ sp.pc = "client"
    /\ clients' = Append(clients, [by |-> "structured_generator_with_system_prompt",
                                   api_key |-> sp.api_key.s])
    /\ sp' = [sp EXCEPT !.pc = "build"]
    /\ UNCHANGED <<environ, mode, stdin, stdout, mainpc, user_data, prompt, result,
                   caught, sg, network>>

\* params = {...}, with the temperature unless the model is a gpt-5 one.
SP_Build ==
    /\ sp.pc = "build"
    /\ sp' = [sp EXCEPT
                !.params = Params_with_system_prompt(
                               sp.args.model, sp.args.system_prompt,
                               sp.args.user_prompt, sp.args.response_model),
                !.pc = "parse"]
    /\ UNCHANGED <<environ, mode, stdin, stdout, mainpc, user_data, prompt, result,
                   caught, sg, clients, network>>

\* completion = client.beta.chat.completions.parse(**params)
SP_Parse ==
    /\ sp.pc = "parse"
    /\ network' = Append(network, [by |-> "structured_generator_with_system_prompt",
                                   params |-> sp.params])
    /\ \E response \in ServiceResponses :
          LET out == ParseCompletion(response, sp.params.response_format)
          IN sp' = IF out.kind = "raise"
                   THEN [sp EXCEPT !.response = response, !.error = out.error,
                                   !.pc = "except"]
                   ELSE [sp EXCEPT !.response = response, !.completion = out,
                                   !.pc = "return"]
    /\ UNCHANGED <<environ, mode, stdin, stdout, mainpc, user_data, prompt, result,
                   caught, sg, clients>>

\* return completion.choices[0].message.parsed
SP_Return ==
    /\ sp.pc = "return"
    /\ sp' = [sp EXCEPT !.retval = ReturnValue(sp.completion), !.pc = "returned"]
    /\ UNCHANGED <<environ, mode, stdin, stdout, mainpc, user_data, prompt, result,
                   caught, sg, clients, network>>

\* except Exception as e: the error, raise
SP_Except ==
    /\ sp.pc = "except"
    /\ stdout' = Append(stdout, ErrorLine("structured_generator_with_system_prompt", sp.error))
    /\ sp' = [sp EXCEPT !.pc = "raised"]
    /\ UNCHANGED <<environ, mode, stdin, mainpc, user_data, prompt, result, caught,
                   sg, clients, network>>

\* ------------------------------------------------------------------------
\* helpers.py called directly by an importing program
\* ------------------------------------------------------------------------

Models ==
    {<<"g", "p", "t", "-", "5">>,
     <<"g", "p", "t", "-", "5", "-", "m", "i", "n", "i">>,
     <<"g", "p", "t", "-", "4", "-", "t", "u", "r", "b", "o">>,
     <<"g", "p", "t", "-", "3", ".", "5", "-", "t", "u", "r", "b", "o">>}

UserPrompts ==
    {<<"G", "e", "n", "e", "r", "a", "t", "e", " ", "a", " ", "p", "e", "r", "s", "o",
       "n">>,
     <<"H", "e", "l", "l", "o">>}

PirateSystemPrompt ==
    <<"Y", "o", "u", " ", "a", "r", "e", " ", "a", " ", "p", "i", "r", "a", "t", "e",
      ".">>

SystemPrompts == {FixedSystemPrompt, PirateSystemPrompt}

\* structured_generator(model, prompt, response_model), one call at a time.
Call_structured_generator ==
    /\ mode = "import"
    /\ sg.pc = "idle"
    /\ sp.pc \in {"idle", "returned", "raised"}
    /\ \E m \in Models, u \in UserPrompts :
          sg' = [IdleFrame EXCEPT
                   !.pc = "entry",
                   !.args = [model |-> m, prompt |-> u,
                             response_model |-> ChampionRecommendations]]
    /\ UNCHANGED <<environ, mode, stdin, stdout, mainpc, user_data, prompt, result,
                   caught, sp, clients, network>>

\* structured_generator_with_system_prompt(model, system_prompt, user_prompt,
\* response_model), one call at a time.
Call_with_system_prompt ==
    /\ mode = "import"
    /\ sp.pc = "idle"
    /\ sg.pc \in {"idle", "returned", "raised"}
    /\ \E m \in Models, s \in SystemPrompts, u \in UserPrompts :
          sp' = [IdleFrame EXCEPT
                   !.pc = "entry",
                   !.args = [model |-> m, system_prompt |-> s, user_prompt |-> u,
                             response_model |-> ChampionRecommendations]]
    /\ UNCHANGED <<environ, mode, stdin, stdout, mainpc, user_data, prompt, result,
                   caught, sg, clients, network>>

Next ==
    \/ GetUserInput
    \/ CreatePrompt
    \/ MainCall
    \/ MainResume
    \/ MainCatch
    \/ MainHeader
    \/ MainReport
    \/ MainExcept
    \/ SG_GetKey
    \/ SG_Client
    \/ SG_Build
    \/ SG_Parse
    \/ SG_Return
    \/ SG_Except
    \/ SP_GetKey
    \/ SP_Client
    \/ SP_Build
    \/ SP_Parse
    \/ SP_Return
    \/ SP_Except
    \/ Call_structured_generator
    \/ Call_with_system_prompt

Spec == Init /\ [][Next]_vars

\* ------------------------------------------------------------------------
\* Properties
\* ------------------------------------------------------------------------

\* The credential is absent: OPENAI_API_KEY is unset or empty.
CredentialAbsent ==
    "OPENAI_API_KEY" \notin DOMAIN environ \/ environ["OPENAI_API_KEY"] = << >>

\* The number of entries of a log made by function f.
CountBy(log, f) == Cardinality({i \in DOMAIN log : log[i].by = f})

FrameOf(f) == IF f = "structured_generator" THEN sg ELSE sp

Helpers == {"structured_generator", "structured_generator_with_system_prompt"}

\* C1: a call of either helper made while the credential is absent fails with
\* an error, and neither a client is constructed nor completions.parse
\* invoked during it: the call stops at the credential check.
C1_MissingKeyFailsBeforeNetwork ==
    CredentialAbsent =>
        \A f \in Helpers :
            /\ FrameOf(f).pc \in {"idle", "entry", "raised"}
            /\ FrameOf(f).pc = "raised" => FrameOf(f).error.type = "ValueError"
            /\ CountBy(clients, f) = 0
            /\ CountBy(network, f) = 0

\* Both helpers have failed on an empty credential.
C1_Witness ==
    /\ "OPENAI_API_KEY" \in DOMAIN environ
    /\ CredentialAbsent
    /\ sg.pc = "raised"
    /\ sp.pc = "raised"

\* C2: with a credential present a call of either helper invokes
\* completions.parse at most once, and exactly once by the time it ends; a
\* transport or authentication error of the service is the error the call
\* raises, and the call never returns after it.
C2_OneInvocationNoRetry ==
    ~CredentialAbsent =>
        \A f \in Helpers :
            /\ CountBy(network, f) <= 1
            /\ CountBy(clients, f) <= 1
            /\ Finished(FrameOf(f)) => CountBy(network, f) = 1
            /\ FrameOf(f).pc \in {"return", "returned", "except"} => CountBy(network, f) = 1
            /\ FrameOf(f).response.kind = "error" =>
                  /\ FrameOf(f).pc \in {"except", "raised"}
                  /\ FrameOf(f).error = FrameOf(f).response.error
                  /\ Cardinality({i \in DOMAIN stdout :
                                    stdout[i].by = f /\ stdout[i].kind = "error"}) <= 1

\* structured_generator has raised the service's error after one invocation.
C2_Witness ==
    /\ ~CredentialAbsent
    /\ sg.pc = "raised"
    /\ sg.response.kind = "error"
    /\ CountBy(network, "structured_generator") = 1

\* C3: every request sent carries model, messages and response_format; it
\* carries no temperature when the model identifier starts with "gpt-5", and
\* the temperature 0.7 otherwise.  The request of a frame is built from the
\* arguments of its call.
C3_TemperatureOnlyWhenSupported ==
    /\ \A i \in DOMAIN network :
          LET p == network[i].params
          IN /\ {"model", "messages", "response_format"} \subseteq DOMAIN p
             /\ DOMAIN p \subseteq {"model", "messages", "response_format", "temperature"}
             /\ IF startswith(p.model, NoTemperaturePrefix)
                THEN "temperature" \notin DOMAIN p
                ELSE "temperature" \in DOMAIN p /\ p.temperature = "0.7"
    /\ \A f \in Helpers :
          CountBy(network, f) = 1 =>
              LET p == FrameOf(f).params
                  a == FrameOf(f).args
              IN /\ p.model = a.model
                 /\ p.response_format = a.response_model
                 /\ Len(p.messages) = 2
                 /\ p.messages[1].role = "system"
                 /\ p.messages[2].role = "user"
                 /\ \E i \in DOMAIN network : network[i] = [by |-> f, params |-> p]

\* Two requests were sent, one with and one without the temperature, the
\* latter for a model identifier longer than the prefix.
C3_Witness ==
    /\ Len(network) = 2
    /\ "temperature" \in DOMAIN network[1].params
    /\ "temperature" \notin DOMAIN network[2].params
    /\ Len(network[2].params.model) > Len(NoTemperaturePrefix)

\* A service content that has every field of the schema.
WellFormed(response) ==
    /\ response.kind = "content"
    /\ {"champions", "reasoning", "key_threats"} \subseteq DOMAIN response.content

\* C4: structured_generator with the ChampionRecommendations schema, handed a
\* well-formed content of n champion names: for n in 3..5 it yields a result
\* with n champions, for any other n it raises a schema-validation failure.
C4_ChampionCountBounds ==
    (WellFormed(sg.response) /\ sg.args.response_model.name = "ChampionRecommendations") =>
        LET n == Len(sg.response.content.champions)
        IN IF n \in 3..5
           THEN /\ sg.pc \in {"return", "returned"}
                /\ Len(sg.completion.parsed.champions) = n
                /\ sg.pc = "returned" => Len(sg.retval.champions) = n
           ELSE /\ sg.pc \in {"except", "raised"}
                /\ sg.error.type = "ValidationError"

\* structured_generator returned the five champions of a content of five.
C4_Witness ==
    /\ WellFormed(sg.response)
    /\ Len(sg.response.content.champions) = 5
    /\ sg.pc = "returned"
    /\ Len(sg.retval.champions) = 5

\* C5: a helper that returns normally returns an instance of the declared
\* schema with its three fields; it never returns an absent value.
C5_ReturnsConformingOrFails ==
    \A f \in Helpers :
        FrameOf(f).pc = "returned" =>
            /\ FrameOf(f).retval.kind = FrameOf(f).args.response_model.name
            /\ FrameOf(f).args.response_model.required \subseteq DOMAIN FrameOf(f).retval

\* A typed line that is empty or whitespace only.
Blank(line) == \A i \in DOMAIN line : line[i] \in Whitespace

\* C6: with the five enemy lines blank each enemy role is "Unknown", and a
\* blank role line gives the target role the same sentinel, not "".
C6_BlankInputsDefault ==
    mainpc = "create_prompt" =>
        /\ (\A i \in 1..5 : Blank(stdin[i])) =>
              /\ user_data.top = Unknown
              /\ user_data.jungle = Unknown
              /\ user_data.mid = Unknown
              /\ user_data.adc = Unknown
              /\ user_data.support = Unknown
        /\ Blank(stdin[6]) =>
              /\ user_data.your_role /= << >>
              /\ user_data.your_role = Unknown

\* The number of positions of text p at which v occurs.
Occurrences(v, p) ==
    Cardinality({i \in 1..(Len(p) - Len(v) + 1) : SubSeq(p, i, i + Len(v) - 1) = v})

\* v stands in p at position pos.
At(p, pos, v) == SubSeq(p, pos, pos + Len(v) - 1) = v

\* The six values supplied to create_prompt.
SuppliedValues ==
    {user_data.top, user_data.jungle, user_data.mid, user_data.adc,
     user_data.support, user_data.your_role}

\* The user typed six different values and skipped none.
AllTyped ==
    /\ Cardinality(SuppliedValues) = 6
    /\ << >> \notin SuppliedValues
    /\ Unknown \notin SuppliedValues

\* C7 as stated, taken for six typed, different values: every value supplied to create_prompt occurs in the rendered
\* prompt exactly once, the target role included.
C7_EachValueExactlyOnce ==
    (mainpc = "call" /\ AllTyped) =>
        \A v \in SuppliedValues : Occurrences(v, prompt) = 1

\* C7 as amended: the rendered prompt is the template text with each of the
\* five enemy values standing verbatim at one position, after its role
\* label, and the target role standing verbatim at two positions, on the
\* YOUR ROLE line and in the TASK sentence, and nothing else.
C7_EnemyOnceRoleTwice ==
    mainpc = "call" =>
        LET r    == user_data.your_role
            pTop == Len(T0) + 1
            pJgl == pTop + Len(user_data.top) + Len(T1)
            pMid == pJgl + Len(user_data.jungle) + Len(T2)
            pAdc == pMid + Len(user_data.mid) + Len(T3)
            pSup == pAdc + Len(user_data.adc) + Len(T4)
            pR1  == pSup + Len(user_data.support) + Len(T5)
            pR2  == pR1 + Len(r) + Len(T6)
        IN /\ At(prompt, 1, T0)
           /\ At(prompt, pTop, user_data.top)
           /\ At(prompt, pTop + Len(user_data.top), T1)
           /\ At(prompt, pJgl, user_data.jungle)
           /\ At(prompt, pJgl + Len(user_data.jungle), T2)
           /\ At(prompt, pMid, user_data.mid)
           /\ At(prompt, pMid + Len(user_data.mid), T3)
           /\ At(prompt, pAdc, user_data.adc)
           /\ At(prompt, pAdc + Len(user_data.adc), T4)
           /\ At(prompt, pSup, user_data.support)
           /\ At(prompt, pSup + Len(user_data.support), T5)
           /\ At(prompt, pR1, r)
           /\ At(prompt, pR1 + Len(r), T6)
           /\ At(prompt, pR2, r)
           /\ At(prompt, pR2 + Len(r), T7)
           /\ Len(prompt) = pR2 + Len(r) + Len(T7) - 1
           /\ Occurrences(r, prompt) >= 2

\* A prompt was rendered for five typed enemy champions and a typed role.
C7_Witness ==
    /\ mainpc = "call"
    /\ user_data.your_role /= << >>
    /\ \A v \in {user_data.top, user_data.jungle, user_data.mid, user_data.adc,
                 user_data.support} : v /= Unknown

\* C8: in a run of main no error escapes main, and when the completion step
\* raised (missing credential, transport or authentication failure, schema
\* validation failure) main ends having printed that error followed by its
\* hints.
C8_ErrorsReportedWithHints ==
    /\ mainpc /= "crashed"
    /\ (mode = "main" /\ sg.pc = "raised" /\ mainpc \in {"except", "done"}) =>
          caught = sg.error
    /\ (mode = "main" /\ sg.pc = "raised" /\ mainpc = "done") =>
          /\ Len(stdout) > Len(MainHints)
          /\ stdout[Len(stdout) - Len(MainHints)] = ErrorLine("main", sg.error)
          /\ SubSeq(stdout, Len(stdout) - Len(MainHints) + 1, Len(stdout)) = MainHints

\* main ended after a schema-validation failure of the completion step.
C8_Witness ==
    /\ mode = "main"
    /\ mainpc = "done"
    /\ sg.pc = "raised"
    /\ sg.error.type = "ValidationError"

\* A line of the given kind printed by main.
MainPrinted(kind) ==
    \E i \in DOMAIN stdout : stdout[i].by = "main" /\ stdout[i].kind = kind

\* C9: main prints the report or the error, never both: no error line
\* follows the header of the report, and nothing of the report is printed
\* when the completion step failed or returned no parsed result.
C9_ReportOrErrorNeverBoth ==
    mode = "main" =>
        /\ ~(MainPrinted("header") /\ MainPrinted("error"))
        /\ (sg.pc = "raised" \/ (sg.pc = "returned" /\ sg.retval.kind = "None")) =>
              ~MainPrinted("header")

\* Both helpers were called with the same model, prompt and schema, the
\* system prompt being the fixed one, and met the same service behaviour.
SameCall ==
    /\ mode = "import"
    /\ Finished(sg)
    /\ Finished(sp)
    /\ sg.args.model = sp.args.model
    /\ sg.args.prompt = sp.args.user_prompt
    /\ sg.args.response_model = sp.args.response_model
    /\ sp.args.system_prompt = FixedSystemPrompt
    /\ sg.response = sp.response

====
